---- MODULE Spec2Model ----
(***************************************************************************)
(* The ABCI application of the node (blockchain/application.rs): the hooks *)
(* init_chain, info, query, check_tx, begin_block, deliver_tx and commit,  *)
(* over the record store, the program store, the validator set and the     *)
(* height file.                                                            *)
(***************************************************************************)
EXTENDS Integers, Sequences, FiniteSets, TLC

\* ------------------------------------------------------------ bounds
\* Blocks the host proposes, and the fees one block may collect.
MaxHeight == 3
MaxFeePool == 2

\* ------------------------------------------------------------ values
Commitments == {1, 2}
Fees == {0, 1}
\* The serial number that spends the record with commitment c; commitment 0
\* is held by no record, so SerialOf(0) is a serial number unknown to any store.
SerialOf(c) == <<"sn", c>>
SerialNumbers == {SerialOf(c) : c \in Commitments \cup {0}}
Addresses == {"A", "B"}
None == <<>>
Some(x) == <<x>>

\* ------------------------------------------------------------ sequences
RECURSIVE Concat(_)
Concat(ss) == IF ss = <<>> THEN <<>> ELSE Head(ss) \o Concat(Tail(ss))

RECURSIVE SumSeq(_)
SumSeq(s) == IF s = <<>> THEN 0 ELSE Head(s) + SumSeq(Tail(s))

Range(s) == {s[i] : i \in DOMAIN s}

\* ------------------------------------------------------------ record store
\* committed, staged: commitment -> record (ciphertext); spent, spent_staged:
\* serial numbers.
NewRecordStore ==
    [committed |-> <<>>, staged |-> <<>>, spent |-> {}, spent_staged |-> {}]

records_exists(rs, commitment) ==
    commitment \in DOMAIN rs.committed \/ commitment \in DOMAIN rs.staged

records_add(rs, commitment, record) ==
    IF records_exists(rs, commitment)
    THEN [ok |-> FALSE, store |-> rs]
    ELSE [ok |-> TRUE,
          store |-> [rs EXCEPT !.staged = (commitment :> record) @@ rs.staged]]

\* The serial-number index holds the committed records only.
records_known(rs, serial_number) ==
    \E c \in DOMAIN rs.committed : SerialOf(c) = serial_number

records_is_unspent(rs, serial_number) ==
    /\ records_known(rs, serial_number)
    /\ serial_number \notin rs.spent
    /\ serial_number \notin rs.spent_staged

records_spend(rs, serial_number) ==
    IF records_is_unspent(rs, serial_number)
    THEN [ok |-> TRUE,
          store |-> [rs EXCEPT !.spent_staged = rs.spent_staged \cup {serial_number}]]
    ELSE [ok |-> FALSE, store |-> rs]

records_commit(rs) ==
    [committed |-> rs.staged @@ rs.committed,
     staged |-> <<>>,
     spent |-> rs.spent \cup rs.spent_staged,
     spent_staged |-> {}]

records_scan(rs) == rs.committed
records_scan_spent(rs) == rs.spent

\* ------------------------------------------------------------ program store
\* committed, staged: program id -> [program, keys].
NewProgramStore == [committed |-> <<>>, staged |-> <<>>]

programs_exists(ps, program_id) ==
    program_id \in DOMAIN ps.committed \/ program_id \in DOMAIN ps.staged

programs_get(ps, program_id) ==
    IF program_id \in DOMAIN ps.committed THEN Some(ps.committed[program_id])
    ELSE IF program_id \in DOMAIN ps.staged THEN Some(ps.staged[program_id])
    ELSE None

programs_add(ps, program_id, program, verifying_keys) ==
    IF programs_exists(ps, program_id)
    THEN [ok |-> FALSE, store |-> ps]
    ELSE [ok |-> TRUE,
          store |-> [ps EXCEPT !.staged =
                        (program_id :> [program |-> program, keys |-> verifying_keys])
                            @@ ps.staged]]

\* ------------------------------------------------------------ validator set
Coinbase == 4

NewValidatorSet ==
    [validators |-> <<>>, proposer |-> None, height |-> 0, signers |-> <<>>, fees |-> 0]

validators_set_validators(vs, list) == [vs EXCEPT !.validators = list]

validators_prepare(vs, proposer_address, votes, height) ==
    [vs EXCEPT !.proposer = Some(proposer_address), !.signers = votes, !.height = height]

validators_add(vs, fee) == [vs EXCEPT !.fees = vs.fees + fee]

TotalPower(signers) == SumSeq([i \in DOMAIN signers |-> signers[i][2]])

\* The proposer is paid the fee pool; the coinbase is split among the signers
\* in proportion to their voting power.
Payouts(vs) ==
    (IF vs.proposer = None THEN <<>>
     ELSE <<[address |-> vs.proposer[1], amount |-> vs.fees]>>)
    \o [i \in DOMAIN vs.signers |->
          [address |-> vs.signers[i][1],
           amount |-> (Coinbase * vs.signers[i][2]) \div TotalPower(vs.signers)]]

\* mint[i] is the commitment the VM gives the i-th reward record.
validators_rewards(vs, mint) ==
    [rewards |-> [i \in DOMAIN Payouts(vs) |-> <<mint[i], "reward">>],
     set |-> [vs EXCEPT !.fees = 0]]

\* ------------------------------------------------------------ transactions
transitions(tx) ==
    IF tx.kind = "Deployment" THEN tx.fee ELSE tx.transitions

record_serial_numbers(tx) ==
    Concat([i \in DOMAIN transitions(tx) |-> transitions(tx)[i].serial_numbers])

fees(tx) == SumSeq([i \in DOMAIN transitions(tx) |-> transitions(tx)[i].fee])

output_records(tx) ==
    IF tx.kind = "Execution"
    THEN Concat([i \in DOMAIN tx.transitions |-> tx.transitions[i].outputs])
    ELSE <<>>

\* ------------------------------------------------------------ VM capability
vm_verify_deployment(program, verifying_keys) == verifying_keys = program.text

vm_verify_execution(transition, keys) == transition.proof = "valid"

\* ------------------------------------------------------------ results
Ok == [ok |-> TRUE, err |-> ""]
Err(reason) == [ok |-> FALSE, err |-> reason]
\* The call did not return: the thread panicked.
Panic == [ok |-> FALSE, err |-> "panicked"]

\* ------------------------------------------------------------ validation
HasDuplicates(s) == \E i, j \in DOMAIN s : i < j /\ s[i] = s[j]

\* Mutant: the inputs are not checked for repeats.
check_no_duplicate_records_skipped(tx) == Ok

check_no_duplicate_records(tx) ==
    IF HasDuplicates(record_serial_numbers(tx))
    THEN Err("record with serial number is duplicate")
    ELSE Ok

\* The store's is_unspent answers Ok(bool), or Err when the lookup fails
\* (lookup_ok = FALSE); the check reads it with unwrap_or(true).
is_unspent_unwrap_or_true(rs, serial_number, lookup_ok) ==
    IF lookup_ok THEN records_is_unspent(rs, serial_number) ELSE TRUE

check_inputs_are_unspent(rs, tx, lookup_ok) ==
    IF \E i \in DOMAIN record_serial_numbers(tx) :
          ~is_unspent_unwrap_or_true(rs, record_serial_numbers(tx)[i], lookup_ok)
    THEN Err("input record serial number is unknown or already spent")
    ELSE Ok

\* Mutant: the proof of a transition is verified whether or not the program
\* is stored.
verify_transition_proof_first(ps, transition) ==
    LET stored_keys == programs_get(ps, transition.program_id) IN
    IF ~vm_verify_execution(transition, stored_keys)
    THEN Err("proof verification failed")
    ELSE IF stored_keys # None THEN Ok ELSE Err("Program does not exist")

verify_transition(ps, transition) ==
    LET stored_keys == programs_get(ps, transition.program_id) IN
    IF stored_keys # None
    THEN IF vm_verify_execution(transition, stored_keys[1].keys)
         THEN Ok ELSE Err("proof verification failed")
    ELSE Err("Program does not exist")

RECURSIVE verify_transitions(_, _)
verify_transitions(ps, ts) ==
    IF ts = <<>> THEN Ok
    ELSE IF verify_transition(ps, Head(ts)).ok
         THEN verify_transitions(ps, Tail(ts))
         ELSE verify_transition(ps, Head(ts))

\* Display for Transaction takes the first transition of an Execution with
\* unwrap(): it panics when there is none.
Display_panics(tx) == tx.kind = "Execution" /\ tx.transitions = <<>>

\* The end of validate_transaction: the result is logged with the transaction
\* formatted by Display, and returned.
logged(tx, result) == IF Display_panics(tx) THEN Panic ELSE result

\* Mutant: a deployment is not checked against the programs already stored.
validate_transaction_no_exists_check(ps, tx) ==
    IF tx.kind = "Deployment"
    THEN IF ~verify_transitions(ps, tx.fee).ok
         THEN verify_transitions(ps, tx.fee)
         ELSE logged(tx, IF vm_verify_deployment(tx.program, tx.verifying_keys)
                         THEN Ok ELSE Err("deployment verification failed"))
    ELSE IF tx.transitions = <<>>
         THEN Err("There are no transitions in the execution")
         ELSE IF ~verify_transitions(ps, tx.transitions).ok
              THEN verify_transitions(ps, tx.transitions)
              ELSE logged(tx, Ok)

\* Mutant: an execution is not checked for having transitions.
validate_transaction_no_empty_check(ps, tx) ==
    IF tx.kind = "Deployment"
    THEN IF programs_exists(ps, tx.program.id)
         THEN Err("Program already exists")
         ELSE IF ~verify_transitions(ps, tx.fee).ok
              THEN verify_transitions(ps, tx.fee)
              ELSE logged(tx, IF vm_verify_deployment(tx.program, tx.verifying_keys)
                              THEN Ok ELSE Err("deployment verification failed"))
    ELSE IF ~verify_transitions(ps, tx.transitions).ok
         THEN verify_transitions(ps, tx.transitions)
         ELSE logged(tx, Ok)

\* ensure! and ? return at once; only the result of the last expression of a
\* match arm reaches the log statement.
validate_transaction(ps, tx) ==
    IF tx.kind = "Deployment"
    THEN IF programs_exists(ps, tx.program.id)
         THEN Err("Program already exists")
         ELSE IF ~verify_transitions(ps, tx.fee).ok
              THEN verify_transitions(ps, tx.fee)
              ELSE logged(tx, IF vm_verify_deployment(tx.program, tx.verifying_keys)
                              THEN Ok ELSE Err("deployment verification failed"))
    ELSE IF tx.transitions = <<>>
         THEN Err("There are no transitions in the execution")
         ELSE IF ~verify_transitions(ps, tx.transitions).ok
              THEN verify_transitions(ps, tx.transitions)
              ELSE logged(tx, Ok)

\* ------------------------------------------------------------ state changes
\* the spends going on after one that failed, and reported as done
RECURSIVE spend_each_skips_failed(_, _)
spend_each_skips_failed(rs, serial_numbers) ==
    IF serial_numbers = <<>> THEN [ok |-> TRUE, store |-> rs]
    ELSE spend_each_skips_failed(records_spend(rs, Head(serial_numbers)).store,
                                 Tail(serial_numbers))

RECURSIVE spend_each(_, _)
spend_each(rs, serial_numbers) ==
    IF serial_numbers = <<>> THEN [ok |-> TRUE, store |-> rs]
    ELSE LET r == records_spend(rs, Head(serial_numbers)) IN
         IF r.ok THEN spend_each(r.store, Tail(serial_numbers))
         ELSE [ok |-> FALSE, store |-> r.store]

\* Mutant: the result of the spends is dropped.
spend_input_records_unchecked(rs, tx) ==
    [ok |-> TRUE, store |-> spend_each(rs, record_serial_numbers(tx)).store]

\* Mutant: the inputs are marked spent in the committed layer.
spend_input_records_committed(rs, tx) ==
    LET r == spend_each(rs, record_serial_numbers(tx)) IN
    [ok |-> r.ok,
     store |-> [r.store EXCEPT !.spent = r.store.spent \cup r.store.spent_staged,
                               !.spent_staged = rs.spent_staged]]

spend_input_records(rs, tx) == spend_each(rs, record_serial_numbers(tx))

RECURSIVE add_each(_, _)
add_each(rs, outputs) ==
    IF outputs = <<>> THEN [ok |-> TRUE, store |-> rs]
    ELSE LET r == records_add(rs, Head(outputs)[1], Head(outputs)[2]) IN
         IF r.ok THEN add_each(r.store, Tail(outputs))
         ELSE [ok |-> FALSE, store |-> r.store]

\* Mutant: the outputs are written without asking whether the commitment exists.
RECURSIVE put_each(_, _)
put_each(rs, outputs) ==
    IF outputs = <<>> THEN rs
    ELSE put_each([rs EXCEPT !.staged = (Head(outputs)[1] :> Head(outputs)[2]) @@ rs.staged],
                  Tail(outputs))

add_output_records_unchecked(rs, tx) ==
    [ok |-> TRUE, store |-> put_each(rs, output_records(tx))]

add_output_records(rs, tx) == add_each(rs, output_records(tx))

\* Mutant: the program of a deployment is not stored.
store_program_skipped(ps, tx) == [ok |-> TRUE, store |-> ps]

store_program(ps, tx) ==
    IF tx.kind = "Deployment"
    THEN programs_add(ps, tx.program.id, tx.program, tx.verifying_keys)
    ELSE [ok |-> TRUE, store |-> ps]

\* ------------------------------------------------------------ responses
Response(hook) ==
    [hook |-> hook, code |-> 0, log |-> "", info |-> "", priority |-> 0,
     events |-> <<>>, value |-> <<>>, last_block_height |-> 0]

\* No response: the hook panicked.
Panicked == Response("panic")

\* check_tx setting the priority on a rejection too
check_tx_priority_always(rs, ps, tx, lookup_ok) ==
    LET dup == check_no_duplicate_records(tx)
        unspent == check_inputs_are_unspent(rs, tx, lookup_ok)
        valid == validate_transaction(ps, tx)
        result == IF ~dup.ok THEN dup ELSE IF ~unspent.ok THEN unspent ELSE valid
    IN  IF result = Panic THEN Panicked
        ELSE IF ~result.ok
        THEN [Response("check_tx") EXCEPT !.code = 1, !.log = result.err,
                                          !.info = result.err, !.priority = fees(tx)]
        ELSE [Response("check_tx") EXCEPT !.priority = fees(tx)]

\* check_tx asking for unspent inputs before looking for duplicates
check_tx_unspent_first(rs, ps, tx, lookup_ok) ==
    LET dup == check_no_duplicate_records(tx)
        unspent == check_inputs_are_unspent(rs, tx, lookup_ok)
        valid == validate_transaction(ps, tx)
        result == IF ~unspent.ok THEN unspent ELSE IF ~dup.ok THEN dup ELSE valid
    IN  IF result = Panic THEN Panicked
        ELSE IF ~result.ok
        THEN [Response("check_tx") EXCEPT !.code = 1, !.log = result.err,
                                          !.info = result.err]
        ELSE [Response("check_tx") EXCEPT !.priority = fees(tx)]

check_tx(rs, ps, tx, lookup_ok) ==
    LET dup == check_no_duplicate_records(tx)
        unspent == check_inputs_are_unspent(rs, tx, lookup_ok)
        valid == validate_transaction(ps, tx)
        result == IF ~dup.ok THEN dup ELSE IF ~unspent.ok THEN unspent ELSE valid
    IN  IF result = Panic THEN Panicked
        ELSE IF ~result.ok
        THEN [Response("check_tx") EXCEPT !.code = 1, !.log = result.err,
                                          !.info = result.err]
        ELSE [Response("check_tx") EXCEPT !.priority = fees(tx)]

\* deliver_tx answering a success without the event
DeliverOk_no_event(tx) == Response("deliver_tx")

DeliverOk(tx) ==
    [Response("deliver_tx") EXCEPT
        !.events = <<[type |-> "app", key |-> "tx_id", value |-> tx.id, index |-> TRUE]>>]

DeliverErr(reason) ==
    [Response("deliver_tx") EXCEPT !.code = 1, !.log = reason, !.info = reason]

\* deliver_tx adding the fee to the pool before it validates
deliver_tx_fee_first(rs, ps, vs, tx, lookup_ok) ==
    LET dup == check_no_duplicate_records(tx)
        unspent == check_inputs_are_unspent(rs, tx, lookup_ok)
        valid == validate_transaction(ps, tx)
        result == IF ~dup.ok THEN dup ELSE IF ~unspent.ok THEN unspent ELSE valid
        fee_added == validators_add(vs, fees(tx))
        spent == spend_input_records(rs, tx)
        added == add_output_records(spent.store, tx)
        stored == store_program(ps, tx)
    IN  IF result = Panic
        THEN [response |-> Panicked,
              records |-> rs, programs |-> ps, validators |-> vs, locks |-> 0]
        ELSE IF ~result.ok
        THEN [response |-> DeliverErr(result.err),
              records |-> rs, programs |-> ps, validators |-> fee_added, locks |-> 1]
        ELSE IF ~spent.ok
        THEN [response |-> DeliverErr("record is unknown or already spent"),
              records |-> spent.store, programs |-> ps, validators |-> fee_added, locks |-> 1]
        ELSE IF ~added.ok
        THEN [response |-> DeliverErr("record already exists"),
              records |-> added.store, programs |-> ps, validators |-> fee_added, locks |-> 1]
        ELSE IF ~stored.ok
        THEN [response |-> DeliverErr("program could not be stored"),
              records |-> added.store, programs |-> stored.store,
              validators |-> fee_added, locks |-> 1]
        ELSE [response |-> DeliverOk(tx),
              records |-> added.store, programs |-> stored.store,
              validators |-> fee_added, locks |-> 1]

\* The response and the stores after deliver_tx; locks counts how often the
\* hook has taken the validator-set mutex.
deliver_tx(rs, ps, vs, tx, lookup_ok) ==
    LET dup == check_no_duplicate_records(tx)
        unspent == check_inputs_are_unspent(rs, tx, lookup_ok)
        valid == validate_transaction(ps, tx)
        result == IF ~dup.ok THEN dup ELSE IF ~unspent.ok THEN unspent ELSE valid
        fee_added == validators_add(vs, fees(tx))
        spent == spend_input_records(rs, tx)
        added == add_output_records(spent.store, tx)
        stored == store_program(ps, tx)
    IN  IF result = Panic
        THEN [response |-> Panicked,
              records |-> rs, programs |-> ps, validators |-> vs, locks |-> 0]
        ELSE IF ~result.ok
        THEN [response |-> DeliverErr(result.err),
              records |-> rs, programs |-> ps, validators |-> vs, locks |-> 0]
        ELSE IF ~spent.ok
        THEN [response |-> DeliverErr("record is unknown or already spent"),
              records |-> spent.store, programs |-> ps, validators |-> fee_added, locks |-> 1]
        ELSE IF ~added.ok
        THEN [response |-> DeliverErr("record already exists"),
              records |-> added.store, programs |-> ps, validators |-> fee_added, locks |-> 1]
        ELSE IF ~stored.ok
        THEN [response |-> DeliverErr("program could not be stored"),
              records |-> added.store, programs |-> stored.store,
              validators |-> fee_added, locks |-> 1]
        ELSE [response |-> DeliverOk(tx),
              records |-> added.store, programs |-> stored.store,
              validators |-> fee_added, locks |-> 1]

\* begin_block keeping every vote that carries validator data, signed or not
filter_votes_unsigned(votes) ==
    LET kept == SelectSeq(votes, LAMBDA v : v.validator # None)
    IN  [i \in DOMAIN kept |->
            <<kept[i].validator[1].address, kept[i].validator[1].power>>]

\* begin_block keeps the votes that signed the last block and carry validator data.
RECURSIVE filter_votes(_)
filter_votes(votes) ==
    IF votes = <<>> THEN <<>>
    ELSE IF Head(votes).signed_last_block /\ Head(votes).validator # None
         THEN <<<<Head(votes).validator[1].address, Head(votes).validator[1].power>>>>
                  \o filter_votes(Tail(votes))
         ELSE filter_votes(Tail(votes))

\* Mutant: a failed commit drops what was staged.
commit_records_rollback(rs, commit_ok) ==
    IF commit_ok THEN records_commit(rs)
    ELSE [rs EXCEPT !.staged = <<>>, !.spent_staged = {}]

\* commit leaving the staged layer where it is, whatever the store answers
commit_records_skipped(rs, commit_ok) == rs

\* a failed commit of the store folding the staged spends all the same
commit_records_partial(rs, commit_ok) ==
    IF commit_ok THEN records_commit(rs)
    ELSE [rs EXCEPT !.spent = rs.spent \cup rs.spent_staged]

\* commit folds the staged records; a failure of the store's commit is only
\* logged, and the store keeps what it had.
commit_records(rs, commit_ok) == IF commit_ok THEN records_commit(rs) ELSE rs

\* commit adds each reward record and only logs a failure.
RECURSIVE add_rewards(_, _)
add_rewards(rs, rewards) ==
    IF rewards = <<>> THEN rs
    ELSE add_rewards(records_add(rs, Head(rewards)[1], Head(rewards)[2]).store,
                     Tail(rewards))

\* init_chain adds the genesis records one by one and panics on the first failure.
genesis_add(rs, genesis_records) == add_each(rs, genesis_records)

\* ------------------------------------------------------------ height file
\* <<>>: no file; <<h>>: the file holds h.
\* read_or_create writing a new file over the one it has read
HeightFile_read_or_create_resets(file) == 0

HeightFile_read_or_create(file) == IF file = None THEN 0 ELSE file[1]

\* Mutant: the height is written back as it was read.
HeightFile_increment_stuck(file) == file[1]

HeightFile_increment(file) == file[1] + 1

\* ------------------------------------------------------------ inputs
InputLists == {<<>>} \cup {<<s>> : s \in SerialNumbers}
OutputLists == {<<>>} \cup {<<<<c, "output">>>> : c \in Commitments}

Transition(program_id, serial_numbers, outputs, fee, proof) ==
    [program_id |-> program_id, serial_numbers |-> serial_numbers,
     outputs |-> outputs, fee |-> fee, proof |-> proof]

\* Transitions of a deployed program with a proof that verifies.
ValidTransitions ==
    {Transition("hello", i, o, f, "valid") :
        i \in InputLists, o \in OutputLists, f \in Fees}

\* Transitions that validation rejects: a proof that does not verify, or a
\* program that is never deployed.
InvalidTransitions ==
    {Transition(p, i, <<>>, 1, "invalid") :
        p \in {"hello", "unknown"}, i \in InputLists}

Transitions == ValidTransitions \cup InvalidTransitions

\* The transitions of the two-transition executions.
PairTransitions ==
    {Transition("hello", <<SerialOf(1)>>, <<>>, 0, "valid"),
     Transition("hello", <<>>, <<>>, 0, "invalid"),
     Transition("unknown", <<>>, <<>>, 0, "invalid")}

FeeTransitions ==
    {Transition("hello", <<s>>, <<>>, 1, "valid") : s \in SerialNumbers}

Execution(ts) ==
    [kind |-> "Execution", id |-> "tx", program |-> None, verifying_keys |-> None,
     fee |-> <<>>, transitions |-> ts]

Deployment(text, keys, fee) ==
    [kind |-> "Deployment", id |-> "tx", program |-> [id |-> "hello", text |-> text],
     verifying_keys |-> keys, fee |-> fee, transitions |-> <<>>]

ProgramTexts == {"v1", "v2"}

Transactions ==
    {Execution(<<>>)}
    \cup {Execution(<<t>>) : t \in Transitions}
    \cup {Execution(<<t1, t2>>) : t1 \in PairTransitions, t2 \in PairTransitions}
    \cup {Deployment(text, keys, <<>>) : text \in ProgramTexts, keys \in ProgramTexts}
    \cup {Deployment("v1", "v1", <<t>>) : t \in FeeTransitions}

\* Bytes that decode to no transaction, and bytes that decode to no query.
Garbage ==
    [kind |-> "Garbage", id |-> "", program |-> None, verifying_keys |-> None,
     fee |-> <<>>, transitions |-> <<>>]
Payloads == Transactions \cup {Garbage}
Queries == {"GetRecords", "GetSpentSerialNumbers"}
QueryPayloads == Queries \cup {"garbage"}

\* bincode::deserialize: the value the bytes encode, if they encode one.
deserialize_Transaction(data) ==
    IF data.kind \in {"Deployment", "Execution"} THEN Some(data) ELSE None
deserialize_AbciQuery(data) ==
    IF data \in Queries THEN Some(data) ELSE None

\* a hook answering code 1 to a payload it cannot decode
undecodable_rejected(hook) ==
    [Response(hook) EXCEPT !.code = 1, !.log = "could not decode",
                           !.info = "could not decode"]

\* .unwrap() on the decoder's Err: the hook panics.
undecodable(hook) == Panicked

\* The store is asked about the inputs only: a lookup can fail when there is one.
LookupOutcomes(tx) == IF record_serial_numbers(tx) = <<>> THEN {TRUE} ELSE BOOLEAN

GenesisRecords ==
    {<<>>,
     <<<<1, "genesis">>>>,
     <<<<1, "genesis">>, <<2, "genesis">>>>,
     <<<<1, "genesis">>, <<1, "genesis">>>>}

GenesisValidators == <<<<"A", 1>>, <<"B", 2>>>>

Vote(signed, validator) == [signed_last_block |-> signed, validator |-> validator]
VoteLists ==
    {<<Vote(TRUE, Some([address |-> "A", power |-> 1])),
       Vote(FALSE, Some([address |-> "B", power |-> 2])),
       Vote(TRUE, None)>>}
Proposers == {"B"}

\* ------------------------------------------------------------ state
VARIABLES
    phase,        \* where the consensus connection is
    records,      \* SnarkVMApp.records
    programs,     \* SnarkVMApp.programs
    validators,   \* SnarkVMApp.validators
    height_file,  \* the file abci.height
    request,      \* the request the host is waiting on
    response,     \* the response to it, until the host has taken it
    crashed,      \* the process panicked
    n_commits,    \* commit hooks that returned
    spenders,     \* serial number -> deliveries with code 0 that spent it
    deployed,     \* the deployments delivered with code 0
    nodes,        \* two nodes fed the same hooks (SpecReplicas only)
    threads       \* where commit is, who holds the validator-set mutex, and
                  \* what the other connections last did (SpecThreads only)

vars == <<phase, records, programs, validators, height_file, request, response,
          crashed, n_commits, spenders, deployed, nodes, threads>>

Idle == Response("idle")

\* No hook is running in steps, the validator-set mutex is free.
NoThreads ==
    [pc |-> "idle", mutex |-> None, pending |-> <<>>, start |-> NewRecordStore,
     op |-> "none", seen |-> None]
Request(hook, tx, lookup_ok) == [hook |-> hook, tx |-> tx, lookup_ok |-> lookup_ok]
NoRequest == Request("idle", None, TRUE)

Init ==
    /\ phase = "Uninitialized"
    /\ records = NewRecordStore
    /\ programs = NewProgramStore
    /\ validators = NewValidatorSet
    /\ height_file = None
    /\ request = NoRequest
    /\ response = Idle
    /\ crashed = FALSE
    /\ n_commits = 0
    /\ spenders = [s \in SerialNumbers |-> 0]
    /\ deployed = {}
    /\ nodes = <<>>
    /\ threads = NoThreads

\* The host calls a hook when the last response has reached it.
Callable == ~crashed /\ response = Idle

\* ------------------------------------------------------------ hooks
InitChain(genesis_records, genesis_validators) ==
    /\ Callable /\ phase = "Uninitialized"
    /\ LET added == genesis_add(records, genesis_records) IN
         /\ records' = added.store
         /\ IF added.ok
            THEN /\ validators' = validators_set_validators(validators, genesis_validators)
                 /\ phase' = "Initialized"
                 /\ response' = Response("init_chain")
                 /\ crashed' = FALSE
            ELSE /\ crashed' = TRUE
                 /\ UNCHANGED <<validators, phase, response>>
    /\ request' = Request("init_chain", None, TRUE)
    /\ UNCHANGED <<programs, height_file, n_commits, spenders, deployed, nodes, threads>>

Info ==
    /\ Callable
    /\ response' = [Response("info") EXCEPT
                       !.last_block_height = HeightFile_read_or_create(height_file)]
    /\ height_file' = Some(HeightFile_read_or_create(height_file))
    /\ request' = Request("info", None, TRUE)
    /\ UNCHANGED <<phase, records, programs, validators, crashed, n_commits, spenders, deployed, nodes, threads>>

\* Mutant: a query scans the staged layer as well.
Query_scans_staged(query, scan_ok) ==
    /\ Callable /\ phase # "Uninitialized"
    /\ LET r == IF deserialize_AbciQuery(query) = None THEN undecodable("query")
                ELSE IF ~scan_ok
                THEN [Response("query") EXCEPT
                         !.code = 1, !.log = "Error running query",
                         !.info = "Error running query"]
                ELSE IF query = "GetRecords"
                THEN [Response("query") EXCEPT
                         !.value = <<query, records.staged @@ records.committed>>]
                ELSE [Response("query") EXCEPT
                         !.value = <<query, records.spent \cup records.spent_staged>>]
       IN /\ crashed' = (r = Panicked)
          /\ response' = IF r = Panicked THEN response ELSE r
    /\ request' = Request("query", query, scan_ok)
    /\ UNCHANGED <<phase, records, programs, validators, height_file,
                   n_commits, spenders, deployed, nodes, threads>>

Query(query, scan_ok) ==
    /\ Callable /\ phase # "Uninitialized"
    /\ LET r == IF deserialize_AbciQuery(query) = None THEN undecodable("query")
                ELSE IF ~scan_ok
                THEN [Response("query") EXCEPT
                         !.code = 1, !.log = "Error running query",
                         !.info = "Error running query"]
                ELSE IF query = "GetRecords"
                THEN [Response("query") EXCEPT !.value = <<query, records_scan(records)>>]
                ELSE [Response("query") EXCEPT !.value = <<query, records_scan_spent(records)>>]
       IN /\ crashed' = (r = Panicked)
          /\ response' = IF r = Panicked THEN response ELSE r
    /\ request' = Request("query", query, scan_ok)
    /\ UNCHANGED <<phase, records, programs, validators, height_file,
                   n_commits, spenders, deployed, nodes, threads>>

\* Mutant: check_tx adds the fee to the pool, as deliver_tx does.
CheckTx_adds_fee(tx, lookup_ok) ==
    /\ Callable /\ phase # "Uninitialized"
    /\ LET r == IF deserialize_Transaction(tx) = None THEN undecodable("check_tx")
                ELSE check_tx(records, programs, tx, lookup_ok) IN
         /\ crashed' = (r = Panicked)
         /\ response' = IF r = Panicked THEN response ELSE r
    /\ request' = Request("check_tx", tx, lookup_ok)
    /\ validators' = IF response'.hook = "check_tx" /\ response'.code = 0
                     THEN validators_add(validators, fees(tx)) ELSE validators
    /\ UNCHANGED <<phase, records, programs, height_file, n_commits, spenders, deployed, nodes, threads>>

CheckTx(tx, lookup_ok) ==
    /\ Callable /\ phase # "Uninitialized"
    /\ LET r == IF deserialize_Transaction(tx) = None THEN undecodable("check_tx")
                ELSE check_tx(records, programs, tx, lookup_ok) IN
         /\ crashed' = (r = Panicked)
         /\ response' = IF r = Panicked THEN response ELSE r
    /\ request' = Request("check_tx", tx, lookup_ok)
    /\ UNCHANGED <<phase, records, programs, validators, height_file,
                   n_commits, spenders, deployed, nodes, threads>>

BeginBlock(proposer_address, votes) ==
    /\ Callable /\ phase \in {"Initialized", "Ready"}
    /\ n_commits < MaxHeight
    /\ validators' = validators_prepare(validators, proposer_address,
                                        filter_votes(votes), n_commits + 1)
    /\ phase' = "InBlock"
    /\ response' = Response("begin_block")
    /\ request' = Request("begin_block",
                           [proposer_address |-> proposer_address, votes |-> votes],
                           TRUE)
    /\ UNCHANGED <<records, programs, height_file, crashed, n_commits, spenders, deployed, nodes, threads>>

DeliverTx(tx, lookup_ok) ==
    /\ Callable /\ phase = "InBlock"
    /\ validators.fees + fees(tx) <= MaxFeePool
    /\ LET d == IF deserialize_Transaction(tx) = None
                THEN [response |-> undecodable("deliver_tx"), records |-> records,
                      programs |-> programs, validators |-> validators, locks |-> 0]
                ELSE deliver_tx(records, programs, validators, tx, lookup_ok) IN
         /\ crashed' = (d.response = Panicked)
         /\ response' = IF d.response = Panicked THEN response ELSE d.response
         /\ records' = d.records
         /\ programs' = d.programs
         /\ validators' = d.validators
         /\ spenders' =
              IF d.response.hook = "deliver_tx" /\ d.response.code = 0
              THEN [s \in SerialNumbers |->
                      IF s \in Range(record_serial_numbers(tx))
                      THEN spenders[s] + 1 ELSE spenders[s]]
              ELSE spenders
         /\ deployed' =
              IF d.response.hook = "deliver_tx" /\ d.response.code = 0
                 /\ tx.kind = "Deployment"
              THEN deployed \cup {[id |-> tx.program.id, program |-> tx.program,
                                   keys |-> tx.verifying_keys]}
              ELSE deployed
    /\ request' = Request("deliver_tx", tx, lookup_ok)
    /\ UNCHANGED <<phase, height_file, n_commits, nodes, threads>>

\* commit handing out the rewards without emptying the fee pool
Commit_keeps_pool(commit_ok, mint) ==
    /\ Callable /\ phase = "InBlock"
    /\ LET committed == commit_records(records, commit_ok)
           minted == validators_rewards(validators, mint)
       IN IF height_file = None
          THEN /\ records' = committed
               /\ crashed' = TRUE
               /\ UNCHANGED <<phase, validators, height_file, response, n_commits>>
          ELSE /\ height_file' = Some(HeightFile_increment(height_file))
               /\ records' = add_rewards(committed, minted.rewards)
               /\ validators' = validators
               /\ phase' = "Ready"
               /\ n_commits' = n_commits + 1
               /\ response' = Response("commit")
               /\ crashed' = FALSE
    /\ request' = Request("commit", mint, commit_ok)
    /\ UNCHANGED <<programs, spenders, deployed, nodes, threads>>

Commit(commit_ok, mint) ==
    /\ Callable /\ phase = "InBlock"
    /\ LET committed == commit_records(records, commit_ok)
           minted == validators_rewards(validators, mint)
       IN IF height_file = None
          THEN /\ records' = committed
               /\ crashed' = TRUE
               /\ UNCHANGED <<phase, validators, height_file, response, n_commits>>
          ELSE /\ height_file' = Some(HeightFile_increment(height_file))
               /\ records' = add_rewards(committed, minted.rewards)
               /\ validators' = minted.set
               /\ phase' = "Ready"
               /\ n_commits' = n_commits + 1
               /\ response' = Response("commit")
               /\ crashed' = FALSE
    /\ request' = Request("commit", mint, commit_ok)
    /\ UNCHANGED <<programs, spenders, deployed, nodes, threads>>

\* The host takes the response.
Respond ==
    /\ ~crashed /\ response # Idle
    /\ response' = Idle
    /\ request' = NoRequest
    /\ UNCHANGED <<phase, records, programs, validators, height_file,
                   crashed, n_commits, spenders, deployed, nodes, threads>>

Mints == [1..(1 + Len(validators.signers)) -> Commitments]

Next ==
    \/ \E g \in GenesisRecords : InitChain(g, GenesisValidators)
    \/ Info
    \/ \E q \in QueryPayloads, ok \in BOOLEAN : Query(q, ok)
    \/ \E tx \in Payloads : \E ok \in LookupOutcomes(tx) : CheckTx(tx, ok)
    \/ \E p \in Proposers, v \in VoteLists : BeginBlock(p, v)
    \/ \E tx \in Payloads : \E ok \in LookupOutcomes(tx) : DeliverTx(tx, ok)
    \/ \E ok \in BOOLEAN, mint \in Mints : Commit(ok, mint)
    \/ Respond

Spec == Init /\ [][Next]_vars

\* ------------------------------------------------------------ two nodes
\* Two nodes start from the same genesis and are given the same hooks with
\* the same arguments, with no store failure. What a node decides for itself
\* is the order in which rewards() lists the payouts: the order of iteration
\* of a hash map.
Replicas == {1, 2}

NewNode ==
    [phase |-> "Uninitialized", records |-> NewRecordStore,
     programs |-> NewProgramStore, validators |-> NewValidatorSet,
     height_file |-> None, response |-> Idle, inserted |-> <<>>]

Orders(n) ==
    {f \in [1..n -> 1..n] : \A i, j \in 1..n : f[i] = f[j] => i = j}

reorder(s, order) == [i \in DOMAIN s |-> s[order[i]]]

node_init_chain(node, genesis_records, genesis_validators) ==
    [node EXCEPT !.records = genesis_add(node.records, genesis_records).store,
                 !.validators = validators_set_validators(node.validators,
                                                          genesis_validators),
                 !.phase = "Initialized",
                 !.response = Response("init_chain")]

node_info(node) ==
    [node EXCEPT !.height_file = Some(HeightFile_read_or_create(node.height_file)),
                 !.response = [Response("info") EXCEPT !.last_block_height =
                                  HeightFile_read_or_create(node.height_file)]]

node_begin_block(node, proposer_address, votes) ==
    [node EXCEPT !.validators =
                    validators_prepare(node.validators, proposer_address,
                                       filter_votes(votes),
                                       HeightFile_read_or_create(node.height_file) + 1),
                 !.phase = "InBlock",
                 !.response = Response("begin_block")]

node_deliver_tx(node, tx) ==
    LET d == deliver_tx(node.records, node.programs, node.validators, tx, TRUE) IN
    [node EXCEPT !.records = d.records, !.programs = d.programs,
                 !.validators = d.validators, !.response = d.response]

\* inserted: the commitments of the reward records in the order in which the
\* last commit inserted them.
node_commit(node, mint, order) ==
    LET committed == commit_records(node.records, TRUE)
        minted == validators_rewards(node.validators, mint)
        rewards == reorder(minted.rewards, order)
    IN [node EXCEPT !.records = add_rewards(committed, rewards),
                    !.height_file = Some(HeightFile_increment(node.height_file)),
                    !.validators = minted.set,
                    !.phase = "Ready",
                    !.response = Response("commit"),
                    !.inserted = [i \in DOMAIN rewards |-> rewards[i][1]]]

ReplicaTransactions ==
    {Deployment("v1", "v1", <<>>),
     Execution(<<Transition("hello", <<SerialOf(1)>>, <<<<2, "output">>>>, 1, "valid")>>),
     Execution(<<Transition("hello", <<SerialOf(2)>>, <<>>, 1, "valid")>>),
     Execution(<<Transition("hello", <<>>, <<<<1, "output">>>>, 1, "valid")>>)}

UNCHANGED_node == UNCHANGED <<phase, records, programs, validators, height_file,
                              request, response, crashed, n_commits, spenders,
                              deployed, threads>>

InitReplicas ==
    /\ phase = "Uninitialized"
    /\ records = NewRecordStore
    /\ programs = NewProgramStore
    /\ validators = NewValidatorSet
    /\ height_file = None
    /\ request = NoRequest
    /\ response = Idle
    /\ crashed = FALSE
    /\ n_commits = 0
    /\ spenders = [s \in SerialNumbers |-> 0]
    /\ deployed = {}
    /\ nodes = [n \in Replicas |-> NewNode]
    /\ threads = NoThreads

ReplicaInfo ==
    /\ nodes' = [n \in Replicas |-> node_info(nodes[n])]
    /\ UNCHANGED_node

ReplicaInitChain(genesis_records) ==
    /\ nodes[1].phase = "Uninitialized"
    /\ genesis_add(NewRecordStore, genesis_records).ok
    /\ nodes' = [n \in Replicas |->
                   node_init_chain(nodes[n], genesis_records, GenesisValidators)]
    /\ UNCHANGED_node

ReplicaBeginBlock(proposer_address, votes) ==
    /\ nodes[1].phase \in {"Initialized", "Ready"}
    /\ nodes[1].height_file # None
    /\ HeightFile_read_or_create(nodes[1].height_file) < MaxHeight
    /\ nodes' = [n \in Replicas |->
                   node_begin_block(nodes[n], proposer_address, votes)]
    /\ UNCHANGED_node

ReplicaDeliverTx(tx) ==
    /\ nodes[1].phase = "InBlock"
    /\ nodes[1].validators.fees + fees(tx) <= MaxFeePool
    /\ nodes' = [n \in Replicas |-> node_deliver_tx(nodes[n], tx)]
    /\ UNCHANGED_node

ReplicaCommit(mint, order) ==
    /\ nodes[1].phase = "InBlock"
    /\ nodes' = [n \in Replicas |-> node_commit(nodes[n], mint, order[n])]
    /\ UNCHANGED_node

NextReplicas ==
    \/ ReplicaInfo
    \/ \E g \in GenesisRecords : ReplicaInitChain(g)
    \/ \E p \in Proposers, v \in VoteLists : ReplicaBeginBlock(p, v)
    \/ \E tx \in ReplicaTransactions : ReplicaDeliverTx(tx)
    \/ \E mint \in [1..Len(Payouts(nodes[1].validators)) -> Commitments],
          order \in [Replicas -> Orders(Len(Payouts(nodes[1].validators)))] :
          ReplicaCommit(mint, order)

SpecReplicas == InitReplicas /\ [][NextReplicas]_vars

\* ------------------------------------------------------------ connections in parallel
\* The consensus connection runs commit one operation at a time; the query
\* and mempool connections run query and check_tx at any point in between.
\* threads.pc is where commit is, threads.mutex who holds the validator-set
\* mutex, threads.pending the rewards still to add, threads.start the record
\* store when commit began, threads.op the operation last run, threads.seen
\* what the last query or check_tx answered.
ThreadGenesis == {<<<<1, "genesis">>>>}
ThreadTransactions == ReplicaTransactions

\* The consensus connection is between two hooks.
ConsensusIdle == threads.pc = "idle"

\* self.records.commit(), its failure only logged.
CommitStore(commit_ok, mint) ==
    /\ Callable /\ phase = "InBlock" /\ ConsensusIdle
    /\ records' = commit_records(records, commit_ok)
    /\ request' = Request("commit", mint, commit_ok)
    /\ threads' = [threads EXCEPT !.pc = "committed", !.start = records,
                                  !.op = "records.commit", !.seen = None]
    /\ UNCHANGED <<phase, programs, validators, height_file, response, crashed,
                   n_commits, spenders, deployed, nodes>>

\* HeightFile::increment(), which panics without the file.
CommitHeight ==
    /\ ~crashed /\ threads.pc = "committed"
    /\ IF height_file = None
       THEN /\ crashed' = TRUE
            /\ threads' = [threads EXCEPT !.op = "HeightFile.increment", !.seen = None]
            /\ UNCHANGED height_file
       ELSE /\ crashed' = FALSE
            /\ height_file' = Some(HeightFile_increment(height_file))
            /\ threads' = [threads EXCEPT !.pc = "incremented",
                                          !.op = "HeightFile.increment", !.seen = None]
    /\ UNCHANGED <<phase, records, programs, validators, request, response,
                   n_commits, spenders, deployed, nodes>>

\* The head of the for loop: self.validators.lock().unwrap().rewards(). The
\* guard is a temporary of the loop's iterator expression and lives until the
\* loop ends.
CommitRewards ==
    /\ ~crashed /\ threads.pc = "incremented" /\ threads.mutex = None
    /\ LET minted == validators_rewards(validators, request.tx)
       IN  /\ validators' = minted.set
           /\ threads' = [threads EXCEPT !.pc = "rewarding", !.mutex = Some("commit"),
                                         !.pending = minted.rewards,
                                         !.op = "validators.rewards", !.seen = None]
    /\ UNCHANGED <<phase, records, programs, height_file, request, response, crashed,
                   n_commits, spenders, deployed, nodes>>

\* The body of the for loop: self.records.add of one reward, a failure only
\* logged.
CommitAddReward ==
    /\ ~crashed /\ threads.pc = "rewarding" /\ threads.pending # <<>>
    /\ records' = records_add(records, Head(threads.pending)[1],
                              Head(threads.pending)[2]).store
    /\ threads' = [threads EXCEPT !.pending = Tail(threads.pending),
                                  !.op = "records.add", !.seen = None]
    /\ UNCHANGED <<phase, programs, validators, height_file, request, response,
                   crashed, n_commits, spenders, deployed, nodes>>

\* The loop is over: the guard is dropped and commit returns.
CommitReturn ==
    /\ ~crashed /\ threads.pc = "rewarding" /\ threads.pending = <<>>
    /\ threads' = [threads EXCEPT !.pc = "idle", !.mutex = None,
                                  !.start = NewRecordStore,
                                  !.op = "return", !.seen = None]
    /\ phase' = "Ready"
    /\ n_commits' = n_commits + 1
    /\ response' = Response("commit")
    /\ UNCHANGED <<records, programs, validators, height_file, request, crashed,
                   spenders, deployed, nodes>>

\* query on the query connection, whatever the consensus connection is doing.
ThreadQuery(query) ==
    /\ ~crashed /\ phase # "Uninitialized"
    /\ threads' = [threads EXCEPT
                      !.op = "query",
                      !.seen = Some(<<query,
                                      IF query = "GetRecords"
                                      THEN records_scan(records)
                                      ELSE records_scan_spent(records)>>)]
    /\ UNCHANGED <<phase, records, programs, validators, height_file, request,
                   response, crashed, n_commits, spenders, deployed, nodes>>

\* check_tx on the mempool connection: it reads the stores and takes no lock.
ThreadCheckTx(tx) ==
    /\ ~crashed /\ phase # "Uninitialized"
    /\ threads' = [threads EXCEPT
                      !.op = "check_tx",
                      !.seen = Some(<<"check_tx",
                                      check_tx(records, programs, tx, TRUE).code>>)]
    /\ UNCHANGED <<phase, records, programs, validators, height_file, request,
                   response, crashed, n_commits, spenders, deployed, nodes>>

NextThreads ==
    \/ \E g \in ThreadGenesis : InitChain(g, GenesisValidators)
    \/ ConsensusIdle /\ Info
    \/ \E p \in Proposers, v \in VoteLists : ConsensusIdle /\ BeginBlock(p, v)
    \/ \E tx \in ThreadTransactions : ConsensusIdle /\ DeliverTx(tx, TRUE)
    \/ Respond
    \/ \E ok \in BOOLEAN, mint \in Mints : CommitStore(ok, mint)
    \/ CommitHeight
    \/ CommitRewards
    \/ CommitAddReward
    \/ CommitReturn
    \/ \E q \in Queries : ThreadQuery(q)
    \/ \E tx \in ThreadTransactions : ThreadCheckTx(tx)

SpecThreads == Init /\ [][NextThreads]_vars

\* ------------------------------------------------------------ properties
\* The step in which the application runs a hook.
Step(hook) == request.hook = "idle" /\ request'.hook = hook

\* The hook has returned and the host has not yet taken its response.
Returned(hook) == request.hook = hook /\ response.hook = hook

IsSpent(serial_number) ==
    serial_number \in records.spent \cup records.spent_staged

\* C1: no serial number is spent by two deliveries with code 0, in one block
\* or in different blocks.
C1_NoDoubleSpend == \A s \in SerialNumbers : spenders[s] <= 1

\* A delivery is refused for a serial number spent in an earlier block, while
\* another serial number is spent in the block under way.
C1_Witness ==
    /\ Returned("deliver_tx") /\ response.code = 1
    /\ \E s \in Range(record_serial_numbers(request.tx)) :
          spenders[s] = 1 /\ s \in records.spent
    /\ \E s \in records.spent_staged : spenders[s] = 1

\* C2: once a delivery with code 0 has consumed a record, check_tx of a
\* transaction that consumes the same record returns code 1.
C2_CheckTxRejectsSpent ==
    (/\ Returned("check_tx")
     /\ \E s \in Range(record_serial_numbers(request.tx)) : spenders[s] >= 1)
    => response.code = 1

\* C3: a serial number that is spent, staged or committed, stays spent and is
\* never unspent again, whatever hook runs and however the commit ends.
C3_SpentMonotone ==
    [][\A s \in SerialNumbers :
          IsSpent(s) => (IsSpent(s)' /\ ~records_is_unspent(records', s))]_vars

\* The store's commit has failed while a spend was staged.
C3_Witness ==
    /\ Returned("commit") /\ ~request.lookup_ok
    /\ records.spent_staged # {}
    /\ records.spent # {}

RecordAt(rs, commitment) ==
    IF commitment \in DOMAIN rs.committed
    THEN rs.committed[commitment] ELSE rs.staged[commitment]

\* C4: no commitment is held twice, in one layer or across the two; a record
\* that exists is never replaced; a delivery with an output whose commitment
\* exists returns code 1.
C4_CommitmentUniqueness ==
    [][/\ DOMAIN records'.committed \cap DOMAIN records'.staged = {}
       /\ \A c \in Commitments :
             records_exists(records, c) =>
                /\ records_exists(records', c)
                /\ RecordAt(records', c) = RecordAt(records, c)
       /\ Step("deliver_tx") =>
             \A i \in DOMAIN output_records(request'.tx) :
                records_exists(records, output_records(request'.tx)[i][1])
                    => response'.code = 1]_vars

\* A delivery that passes validation is refused for an output whose
\* commitment is held by a committed record.
C4_Witness ==
    /\ Returned("deliver_tx") /\ response.log = "record already exists"
    /\ \E i \in DOMAIN output_records(request.tx) :
          output_records(request.tx)[i][1] \in DOMAIN records.committed

\* C5 as stated: a Deployment of a program id that is stored gets code 1 with
\* the reason "already exists", from deliver_tx and from check_tx.
C5_RedeployAlreadyExists ==
    [][(/\ Step("deliver_tx") \/ Step("check_tx")
        /\ request'.tx.kind = "Deployment"
        /\ programs_exists(programs, request'.tx.program.id))
       => (/\ response'.code = 1
           /\ response'.log = "Program already exists")]_vars

\* C5: a Deployment of a program id that is stored gets code 1; the reason is
\* "already exists" unless the duplicate-input check or the unspent-input check
\* on its fee transition fails first, and then it is that check's reason. The
\* program and the keys stored for an id never change.
C5_RedeployRejected ==
    [][/\ (/\ Step("deliver_tx") \/ Step("check_tx")
           /\ request'.tx.kind = "Deployment"
           /\ programs_exists(programs, request'.tx.program.id))
          => LET tx == request'.tx
                 dup == check_no_duplicate_records(tx)
                 unspent == check_inputs_are_unspent(records, tx, request'.lookup_ok)
             IN /\ response'.code = 1
                /\ response'.log = IF ~dup.ok THEN dup.err
                                   ELSE IF ~unspent.ok THEN unspent.err
                                   ELSE "Program already exists"
       /\ \A id \in {"hello", "unknown"} :
             programs_exists(programs, id) =>
                programs_get(programs', id) = programs_get(programs, id)]_vars

\* A second Deployment of a stored program id, with other text and keys, is
\* refused.
C5_Witness ==
    /\ Returned("deliver_tx") /\ request.tx.kind = "Deployment"
    /\ response.code = 1 /\ response.log = "Program already exists"
    /\ programs_get(programs, "hello")[1].program # request.tx.program

Height == HeightFile_read_or_create(height_file)

C7_StagedEmptyAfterInitAndCommit ==
    (Returned("init_chain") \/ Returned("commit")) => records.staged = <<>>

\* C8: a delivery with a nonzero code leaves the committed records, the
\* committed spent serial numbers, the committed programs and the persisted
\* height as they were.
C8_StagingIsolation ==
    [][(Step("deliver_tx") /\ response'.code # 0)
       => /\ records'.committed = records.committed
          /\ records'.spent = records.spent
          /\ programs'.committed = programs.committed
          /\ height_file' = height_file]_vars

\* A delivery has spent an input and then failed, over a committed layer that
\* holds records and spent serial numbers.
C8_Witness ==
    /\ Returned("deliver_tx") /\ response.code = 1
    /\ Range(record_serial_numbers(request.tx)) \cap records.spent_staged # {}
    /\ records.committed # <<>> /\ records.spent # {}

\* C9: a delivery with a nonzero code leaves the staged records, the staged
\* spent serial numbers, the staged programs and the fee pool as they were.
C9_NoPartialEffect ==
    [][(Step("deliver_tx") /\ response'.code # 0)
       => /\ records'.staged = records.staged
          /\ records'.spent_staged = records.spent_staged
          /\ programs'.staged = programs.staged
          /\ validators'.fees = validators.fees]_vars

\* C10: check_tx, with code 0 or code 1, leaves the record store, the program
\* store, the validator set and the persisted height as they were.
C10_CheckTxChangesNothing ==
    [][Step("check_tx")
       => UNCHANGED <<records, programs, validators, height_file>>]_vars

\* check_tx accepts a transaction with a fee during a block that has
\* collected fees and staged a spend.
C10_Witness ==
    /\ Returned("check_tx") /\ response.code = 0 /\ response.priority = 1
    /\ validators.fees > 0 /\ records.spent_staged # {}

\* The hook that runs in this step is check_tx or deliver_tx, the two hooks
\* that validate a transaction.
ValidatingStep == Step("check_tx") \/ Step("deliver_tx")

\* C11: a transaction that names a serial number twice gets code 1 from
\* check_tx and from deliver_tx, with the duplicate reason, and the record
\* store is as it was: every input unspent before is unspent after.
C11_DuplicateInputsRejected ==
    [][(ValidatingStep /\ HasDuplicates(record_serial_numbers(request'.tx)))
       => /\ response'.code = 1
          /\ response'.log = "record with serial number is duplicate"
          /\ \A s \in Range(record_serial_numbers(request'.tx)) :
                records_is_unspent(records, s) => records_is_unspent(records', s)
          /\ records' = records]_vars

\* deliver_tx has refused a transaction that names an unspent serial number
\* twice, and the serial number is still unspent.
C11_Witness ==
    /\ Returned("deliver_tx") /\ response.code = 1
    /\ HasDuplicates(record_serial_numbers(request.tx))
    /\ \E s \in Range(record_serial_numbers(request.tx)) :
          records_is_unspent(records, s)

\* C12: check_tx and deliver_tx return code 1 for a transaction with an input
\* that the record store does not hold as unspent.
C12_UnspentInputsRequired ==
    [][(/\ ValidatingStep
        /\ \E s \in Range(record_serial_numbers(request'.tx)) :
              ~records_is_unspent(records, s))
       => response'.code = 1]_vars

\* C13: an Execution with no transitions gets code 1 and a reason from
\* check_tx and from deliver_tx; the hook returns, it does not panic, and the
\* stores, the validator set and the height are as they were.
C13_EmptyExecutionRejected ==
    [][(/\ ValidatingStep
        /\ request'.tx.kind = "Execution"
        /\ request'.tx.transitions = <<>>)
       => /\ ~crashed'
          /\ response'.code = 1
          /\ response'.log = "There are no transitions in the execution"
          /\ response'.info = response'.log
          /\ UNCHANGED <<records, programs, validators, height_file>>]_vars

\* deliver_tx has refused an Execution with no transitions in a block that
\* has staged effects.
C13_Witness ==
    /\ Returned("deliver_tx") /\ request.tx.kind = "Execution"
    /\ request.tx.transitions = <<>>
    /\ response.code = 1 /\ ~crashed
    /\ records.spent_staged # {} /\ validators.fees > 0

\* The transaction has a transition of a program that is not stored.
HasUnknownProgram(ps, tx) ==
    \E i \in DOMAIN transitions(tx) :
        ~programs_exists(ps, transitions(tx)[i].program_id)

\* C14 as stated: a transaction with a transition of a program that is not
\* stored gets code 1 with the reason "does not exist".
C14_UnknownProgramDoesNotExist ==
    [][(ValidatingStep /\ HasUnknownProgram(programs, request'.tx))
       => /\ response'.code = 1
          /\ response'.log = "Program does not exist"]_vars

\* C14: a transaction with a transition of a program that is not stored gets
\* code 1. When the duplicate-input check, the unspent-input check and, for a
\* Deployment, the program-exists check pass, the transitions are verified in
\* list order and the first failure is the reason: "does not exist" when the
\* proofs of all transitions before the first unknown program verify (the
\* proof of that transition is not looked at), the proof failure otherwise.
C14_UnknownProgramRejected ==
    [][(ValidatingStep /\ HasUnknownProgram(programs, request'.tx))
       => LET tx == request'.tx
              ts == transitions(tx)
              unknown(i) == ~programs_exists(programs, ts[i].program_id)
              k == CHOOSE i \in DOMAIN ts :
                      unknown(i) /\ \A j \in 1..(i - 1) : ~unknown(j)
              reached ==
                  /\ check_no_duplicate_records(tx).ok
                  /\ check_inputs_are_unspent(records, tx, request'.lookup_ok).ok
                  /\ tx.kind = "Deployment" => ~programs_exists(programs, tx.program.id)
          IN /\ response'.code = 1
             /\ ~crashed'
             /\ reached =>
                   response'.log =
                      IF \A j \in 1..(k - 1) :
                            vm_verify_execution(ts[j],
                                programs_get(programs, ts[j].program_id)[1].keys)
                      THEN "Program does not exist"
                      ELSE "proof verification failed"]_vars

\* deliver_tx has verified the first transition of an Execution and refused
\* the transaction for the unknown program of the second.
C14_Witness ==
    /\ Returned("deliver_tx") /\ request.tx.kind = "Execution"
    /\ Len(request.tx.transitions) = 2
    /\ programs_exists(programs, request.tx.transitions[1].program_id)
    /\ request.tx.transitions[1].proof = "valid"
    /\ ~programs_exists(programs, request.tx.transitions[2].program_id)
    /\ response.code = 1 /\ response.log = "Program does not exist"

\* An Execution with transitions, all of programs delivered in deployments
\* with code 0 (the program ids given), each with a proof that verifies.
ExecutionOf(tx, ids) ==
    /\ tx.kind = "Execution" /\ tx.transitions # <<>>
    /\ \A i \in DOMAIN tx.transitions :
          /\ tx.transitions[i].program_id \in ids
          /\ tx.transitions[i].proof = "valid"

ValidationReasons ==
    {"Program does not exist", "proof verification failed",
     "There are no transitions in the execution", "Program already exists",
     "deployment verification failed"}

\* C15: from the delivery of a Deployment with code 0 on, through the commit
\* of its block and in every later block, the program store returns the
\* program with the keys delivered, and an Execution of it with valid proofs
\* passes validation: check_tx returns code 0 when the input checks pass, and
\* deliver_tx never refuses it with a validation reason.
C15_DeployedProgramStaysVisible ==
    [][/\ \A dep \in deployed' :
             programs_get(programs', dep.id) =
                Some([program |-> dep.program, keys |-> dep.keys])
       /\ (ValidatingStep /\ ExecutionOf(request'.tx, {dep.id : dep \in deployed}))
          => LET tx == request'.tx IN
             /\ ~crashed'
             /\ validate_transaction(programs, tx) = Ok
             /\ response'.log \notin ValidationReasons
             /\ (/\ request'.hook = "check_tx"
                 /\ check_no_duplicate_records(tx).ok
                 /\ check_inputs_are_unspent(records, tx, request'.lookup_ok).ok)
                => response'.code = 0 /\ response'.priority = fees(tx)]_vars

\* Between the commit of the block of the deployment and the next block,
\* check_tx accepts an Execution of the program that spends a committed
\* record.
C15_Witness ==
    /\ Returned("check_tx") /\ phase = "Ready" /\ n_commits >= 1
    /\ deployed # {}
    /\ ExecutionOf(request.tx, {dep.id : dep \in deployed})
    /\ record_serial_numbers(request.tx) # <<>> /\ request.lookup_ok
    /\ response.code = 0

\* The serial numbers of the records that transactions of the block under way
\* have created: staged outputs, not yet committed.
StagedOutputSerials(rs) ==
    {SerialOf(c) : c \in {d \in DOMAIN rs.staged : rs.staged[d] = "output"}}

\* C16: deliver_tx refuses a transaction that spends an output staged earlier
\* in the same block, and refuses it before the spend step: the reason is not
\* the spend's, and neither the record store nor the fee pool has changed.
C16_SameBlockOutputRejectedAtCheck ==
    [][(/\ Step("deliver_tx")
        /\ Range(record_serial_numbers(request'.tx))
              \cap StagedOutputSerials(records) # {})
       => /\ response'.code = 1
          /\ response'.log # "record is unknown or already spent"
          /\ records' = records
          /\ validators' = validators]_vars

\* The shares of the signers in the payouts of a validator set.
SignerShares(vs) ==
    [i \in 1..Len(vs.signers) |-> Payouts(vs)[i + 1].amount]

\* C17: the fee pool of a block is the sum of the fees of its deliveries with
\* code 0; at commit the proposer's share is the fee pool, the signers' shares
\* sum to the coinbase, and the rewards total coinbase + fee pool.
C17_ValidatorConservation ==
    [][/\ Step("deliver_tx") =>
             validators'.fees = validators.fees
                + (IF response'.code = 0 /\ ~crashed' THEN fees(request'.tx) ELSE 0)
       /\ (Step("commit") /\ ~crashed') =>
             /\ Payouts(validators)[1].amount = validators.fees
             /\ SumSeq(SignerShares(validators)) = Coinbase
             /\ SumSeq([i \in DOMAIN Payouts(validators) |->
                          Payouts(validators)[i].amount])
                   = Coinbase + validators.fees
             /\ validators'.fees = 0
       /\ ~(Step("deliver_tx") \/ Step("commit")) =>
             validators'.fees = validators.fees]_vars

\* C18: when commit returns, every reward record that rewards() gave it is a
\* committed, unspent record, and a GetRecords scan returns it. The request of
\* a commit carries the commitments of the reward records.
C18_RewardsCommittedAtOnce ==
    [][(Step("commit") /\ ~crashed')
       => \A i \in DOMAIN request'.tx :
             /\ request'.tx[i] \in DOMAIN records_scan(records')
             /\ records_scan(records')[request'.tx[i]] = "reward"
             /\ SerialOf(request'.tx[i]) \notin records_scan_spent(records')]_vars

\* C19: the committed layer changes in commit only; a query changes no state
\* and, when the scan succeeds, returns the committed records or the committed
\* spent serial numbers, with nothing of what the block under way has staged.
C19_QueryReadsCommitted ==
    [][/\ ~Step("commit") =>
             /\ records'.committed = records.committed
             /\ records'.spent = records.spent
       /\ \A q \in {"GetRecords", "GetSpentSerialNumbers"} :
             (Step("query") /\ ~crashed' /\ response'.code = 0
                            /\ response'.value[1] = q)
             => /\ response'.value[2] =
                      IF q = "GetRecords" THEN records.committed ELSE records.spent
                /\ q = "GetRecords" =>
                      DOMAIN response'.value[2] \cap DOMAIN records.staged = {}
                /\ q = "GetSpentSerialNumbers" =>
                      response'.value[2] \cap records.spent_staged = {}
       /\ Step("query") =>
             /\ response'.code # 0 => ~request'.lookup_ok
             /\ UNCHANGED <<records, programs, validators, height_file>>]_vars

\* A GetRecords query has answered during a block that has staged an output
\* and a spend, over a committed layer that holds records.
C19_Witness ==
    /\ Returned("query") /\ response.code = 0 /\ phase = "InBlock"
    /\ response.value[1] = "GetRecords" /\ response.value[2] # <<>>
    /\ StagedOutputSerials(records) # {} /\ records.spent_staged # {}

\* C20: after every commit two nodes given the same hooks agree on the
\* committed records and spent serial numbers, on the reward records and the
\* order in which they were inserted, on the programs, on the height and on
\* the response.
C20_ReplicasAgree ==
    nodes[1].phase = "Ready" =>
        /\ nodes[1].records.committed = nodes[2].records.committed
        /\ nodes[1].records.spent = nodes[2].records.spent
        /\ nodes[1].records.staged = nodes[2].records.staged
        /\ nodes[1].inserted = nodes[2].inserted
        /\ nodes[1].programs = nodes[2].programs
        /\ nodes[1].height_file = nodes[2].height_file
        /\ nodes[1].response = nodes[2].response

\* ------------------------------------------------------------ C21 .. C30
\* The three checks check_tx and deliver_tx start with, in the code's order.
Validation(rs, ps, tx, lookup_ok) ==
    LET dup == check_no_duplicate_records(tx)
        unspent == check_inputs_are_unspent(rs, tx, lookup_ok)
    IN  IF ~dup.ok THEN dup
        ELSE IF ~unspent.ok THEN unspent
        ELSE validate_transaction(ps, tx)

\* Validation and every state change of deliver_tx succeed.
DeliverSucceeds(rs, ps, tx, lookup_ok) ==
    /\ Validation(rs, ps, tx, lookup_ok).ok
    /\ spend_input_records(rs, tx).ok
    /\ add_output_records(spend_input_records(rs, tx).store, tx).ok
    /\ store_program(ps, tx).ok

\* The errors of deliver_tx's state changes (after validation).
StateChangeReasons ==
    {"record is unknown or already spent", "record already exists",
     "program could not be stored"}

\* The errors of the checks before validate_transaction.
InputReasons ==
    {"record with serial number is duplicate",
     "input record serial number is unknown or already spent"}

\* C21: deliver_tx answers code 0 with exactly one event, of type "app" with the
\* indexed attribute tx_id = the transaction's id, if and only if validation and
\* every state change (fee, spends, outputs, program) succeeded; otherwise it
\* answers code 1 with no event and with log and info both the failure reason.
C21_DeliverTxResponse ==
    [][Step("deliver_tx") /\ ~crashed' =>
        IF DeliverSucceeds(records, programs, request'.tx, request'.lookup_ok)
        THEN /\ response'.code = 0
             /\ response'.events =
                    <<[type |-> "app", key |-> "tx_id",
                       value |-> request'.tx.id, index |-> TRUE]>>
        ELSE /\ response'.code = 1
             /\ response'.events = <<>>
             /\ response'.log = response'.info
             /\ response'.log \in
                    InputReasons \cup ValidationReasons \cup StateChangeReasons]_vars

C21_Witness ==
    /\ Returned("deliver_tx") /\ response.code = 0
    /\ Len(response.events) = 1 /\ response.events[1].value = request.tx.id
    /\ record_serial_numbers(request.tx) # <<>>
    /\ output_records(request.tx) # <<>>

\* C22: check_tx answers code 0 with priority = the transaction's fee exactly
\* when every validation check passes; when one fails it answers code 1 with
\* log and info the reason and the priority left at 0.
C22_CheckTxResponse ==
    [][Step("check_tx") /\ ~crashed' =>
        LET tx == request'.tx
            result == Validation(records, programs, tx, request'.lookup_ok)
        IN  IF result.ok
            THEN /\ response'.code = 0
                 /\ response'.priority = fees(tx)
            ELSE /\ response'.code = 1
                 /\ response'.log = result.err
                 /\ response'.info = result.err
                 /\ response'.priority = 0]_vars

C22_Witness ==
    /\ Returned("check_tx") /\ response.code = 1
    /\ fees(request.tx) = 1 /\ response.priority = 0
    /\ response.log = "proof verification failed"

\* C23: check_tx and deliver_tx run the same checks in the same order: in one
\* state check_tx answers code 1 for a transaction if and only if the
\* validation phase of deliver_tx rejects it, and with the same reason.
C23_SameValidator ==
    [][ValidatingStep /\ ~crashed' =>
        LET tx == request'.tx
            c == check_tx(records, programs, tx, request'.lookup_ok)
            d == deliver_tx(records, programs, validators, tx,
                            request'.lookup_ok).response
            rejected == d.code = 1 /\ d.log \notin StateChangeReasons
        IN  /\ c.code = 1 <=> rejected
            /\ rejected => c.log = d.log /\ c.info = d.info
            /\ response' = IF Step("check_tx") THEN c ELSE d]_vars

C23_Witness ==
    /\ Returned("check_tx") /\ response.code = 1
    /\ HasDuplicates(record_serial_numbers(request.tx))
    /\ ~records_is_unspent(records, record_serial_numbers(request.tx)[1])
    /\ response.log = "record with serial number is duplicate"

\* The commitments of the outputs that deliveries have staged.
StagedOutputs(rs) == {c \in DOMAIN rs.staged : rs.staged[c] = "output"}

\* What deliveries with code 0 have staged is committed: the outputs as unspent
\* records, the inputs as spent serial numbers that scan_spent lists.
Materialized(before, after) ==
    /\ \A c \in StagedOutputs(before) :
          /\ c \in DOMAIN records_scan(after)
          /\ records_scan(after)[c] = "output"
          /\ SerialOf(c) \notin after.spent \cup after.spent_staged
    /\ \A s \in SerialNumbers :
          (spenders[s] >= 1 \/ s \in before.spent_staged)
              => s \in records_scan_spent(after)

\* What deliveries have staged is still staged.
StagingPreserved(before, after) ==
    /\ \A c \in DOMAIN before.staged :
          c \in DOMAIN after.staged /\ after.staged[c] = before.staged[c]
    /\ before.spent_staged \subseteq after.spent_staged

C25_FailedStoreCommit ==
    [][(Step("commit") /\ ~crashed' /\ ~request'.lookup_ok) =>
        LET rewards == validators_rewards(validators, request'.tx).rewards
        IN  /\ records_scan(records') = records_scan(records)
            /\ records_scan_spent(records') = records_scan_spent(records)
            /\ StagingPreserved(records, records')
            /\ records'.spent_staged = records.spent_staged
            /\ Height' = Height + 1
            /\ \A i \in DOMAIN rewards : records_exists(records', rewards[i][1])
            /\ DOMAIN records'.staged =
                  DOMAIN records.staged \cup
                  ({rewards[i][1] : i \in DOMAIN rewards} \ DOMAIN records.committed)
            /\ response' = Response("commit")]_vars

\* The store's commit has failed with a spend staged, and the hook has
\* returned with a reward inserted.
C25_Witness ==
    /\ Returned("commit") /\ ~request.lookup_ok
    /\ response = Response("commit")
    /\ records.spent_staged # {}
    /\ \E c \in DOMAIN records.staged : records.staged[c] = "reward"
    /\ Height = n_commits

\* The votes of last_commit_info that signed the last block and carry
\* validator data.
SignedVotes(votes) ==
    SelectSeq(votes, LAMBDA v : v.signed_last_block /\ v.validator # None)

\* C26: the signers rewarded at the commit of block N are exactly the
\* validators of begin_block N's votes with signed_last_block = true and
\* validator data present, each with its reported power, and the proposer
\* rewarded is the proposer_address of block N's header; the other votes
\* receive nothing.
C26_RewardedSigners ==
    [][/\ Step("begin_block") =>
            LET kept == SignedVotes(request'.tx.votes)
            IN  /\ validators'.proposer = Some(request'.tx.proposer_address)
                /\ validators'.signers =
                      [i \in DOMAIN kept |->
                          <<kept[i].validator[1].address, kept[i].validator[1].power>>]
       /\ ~Step("begin_block") =>
            /\ validators'.proposer = validators.proposer
            /\ validators'.signers = validators.signers
       /\ (Step("commit") /\ ~crashed') =>
            LET paid == Payouts(validators)
                signers == validators.signers
            IN  /\ Len(request'.tx) = Len(paid)
                /\ Len(paid) = 1 + Len(signers)
                /\ paid[1].address = validators.proposer[1]
                /\ \A i \in DOMAIN signers :
                      /\ paid[i + 1].address = signers[i][1]
                      /\ paid[i + 1].amount * TotalPower(signers)
                            <= Coinbase * signers[i][2]
                      /\ Coinbase * signers[i][2]
                            < (paid[i + 1].amount + 1) * TotalPower(signers)]_vars

\* A commit has returned with the proposer B and the one signer A rewarded,
\* the vote that did not sign and the vote without validator data left out.
C26_Witness ==
    /\ Returned("commit")
    /\ validators.proposer = Some("B")
    /\ validators.signers = <<<<"A", 1>>>>
    /\ Len(request.tx) = 2
    /\ Cardinality({c \in DOMAIN records.staged : records.staged[c] = "reward"}) = 2

\* C27: the fee pool is per block: it is empty when a block begins, only
\* deliver_tx adds to it, and the commit of the block pays the proposer of
\* that block the whole pool and leaves it empty; so no fee is paid twice and
\* none is paid to the proposer of another block.
C27_FeePoolPerBlock ==
    [][/\ Step("begin_block") => (validators.fees = 0 /\ validators'.fees = 0)
       /\ Step("deliver_tx") => validators'.fees >= validators.fees
       /\ ~(Step("deliver_tx") \/ Step("commit")) => validators'.fees = validators.fees
       /\ (Step("commit") /\ ~crashed') =>
            /\ Payouts(validators)[1] =
                  [address |-> validators.proposer[1], amount |-> validators.fees]
            /\ \A i \in 2..Len(Payouts(validators)) :
                  Payouts(validators)[i].amount <= Coinbase
            /\ validators'.fees = 0
       /\ phase' # "InBlock" => validators'.fees = 0]_vars

\* In the third block a delivery has put its fee in the pool, which holds
\* nothing of the blocks before, where a record was spent.
C27_Witness ==
    /\ Returned("deliver_tx") /\ response.code = 0
    /\ n_commits = 2 /\ records.spent # {}
    /\ fees(request.tx) = 1 /\ validators.fees = 1

\* The payload of the request does not decode.
Undecodable(req) ==
    \/ req.hook \in {"check_tx", "deliver_tx"} /\ deserialize_Transaction(req.tx) = None
    \/ req.hook = "query" /\ deserialize_AbciQuery(req.tx) = None

\* C30: a payload that cannot be decoded (transaction bytes in check_tx or
\* deliver_tx, query data in query) is fatal: the hook panics, returns no
\* response (so none with code 1), and has changed no state.
C30_UndecodableIsFatal ==
    [][(request.hook = "idle" /\ Undecodable(request')) =>
          /\ crashed'
          /\ response' = Idle
          /\ UNCHANGED <<phase, records, programs, validators, height_file,
                         n_commits>>]_vars

\* deliver_tx has panicked on undecodable bytes in a block with staged changes.
C30_Witness ==
    /\ crashed /\ request.hook = "deliver_tx" /\ request.tx = Garbage
    /\ response = Idle
    /\ records.staged # <<>> /\ records.spent_staged # {}

\* The operations on the record store and the program store.
StoreOps == {"records.commit", "records.add", "records.spend", "programs.add"}

\* C28: check_tx never acquires the validator-set mutex, and no hook runs a
\* record store or program store operation while it holds the mutex: the
\* mutex is free again when set_validators, prepare, add or rewards returns.
\* Violated by commit, which holds the mutex from rewards() until the last
\* reward record is added.
C28_LockDiscipline ==
    [][/\ threads'.op = "check_tx" => threads'.mutex = threads.mutex
       /\ threads.mutex # None => threads'.op \notin StoreOps
       /\ threads'.op = "validators.rewards" => threads'.mutex = None]_vars

\* The committed records once commit is complete as the statement has it:
\* the staged changes folded and the reward records of the block inserted.
CompleteAfter(start, rewards) ==
    records_commit(add_rewards(records_commit(start), rewards))

\* C29: a GetRecords or GetSpentSerialNumbers query that runs while commit is
\* under way sees either the committed state from before the commit or the
\* complete state after it, with every staged change folded and every reward
\* record of the block inserted. Violated: the query sees the staged changes
\* folded and no reward record.
C29_CommitAtomicForQueries ==
    [][(threads'.op = "query" /\ threads.pc # "idle" /\ request.lookup_ok) =>
        LET after == CompleteAfter(threads.start,
                                   validators_rewards(validators, request.tx).rewards)
            seen == threads'.seen[1]
        IN  IF seen[1] = "GetRecords"
            THEN seen[2] \in {records_scan(threads.start), records_scan(after)}
            ELSE seen[2] \in {records_scan_spent(threads.start),
                              records_scan_spent(after)}]_vars

\* ------------------------------------------------------------ C31 .. C33
\* C31: deliver_tx answers code 0 only if every input serial number of the
\* transaction was marked spent by this delivery and every output record was
\* added by it; a failed is_unspent lookup, which the inputs-unspent check
\* takes for unspent, does not get a transaction accepted whose spend fails.
C31_AcceptedMeansApplied ==
    [][(Step("deliver_tx") /\ ~crashed' /\ response'.code = 0) =>
        LET tx == request'.tx IN
        /\ \A s \in Range(record_serial_numbers(tx)) :
              /\ records_is_unspent(records, s)
              /\ s \in records'.spent_staged
              /\ ~records_is_unspent(records', s)
        /\ \A i \in DOMAIN output_records(tx) :
              LET o == output_records(tx)[i] IN
              /\ ~records_exists(records, o[1])
              /\ o[1] \in DOMAIN records'.staged
              /\ records'.staged[o[1]] = o[2]]_vars

\* A delivery whose is_unspent lookup failed has answered code 0, with its
\* input spent and its output added.
C31_Witness ==
    /\ Returned("deliver_tx") /\ response.code = 0 /\ ~request.lookup_ok
    /\ record_serial_numbers(request.tx) # <<>>
    /\ Range(record_serial_numbers(request.tx)) \subseteq records.spent_staged
    /\ output_records(request.tx) # <<>>
    /\ \A i \in DOMAIN output_records(request.tx) :
          output_records(request.tx)[i][1] \in DOMAIN records.staged

\* C32: a transaction that the validation phase of deliver_tx rejects adds
\* nothing to the fee pool and the hook never takes the validator-set mutex;
\* a fee enters the pool only for a transaction that passed every validation
\* check.
C32_RejectedPaysNoFee ==
    [][(Step("deliver_tx") /\ ~crashed') =>
        LET tx == request'.tx
            valid == Validation(records, programs, tx, request'.lookup_ok)
            d == deliver_tx(records, programs, validators, tx, request'.lookup_ok)
        IN  /\ ~valid.ok =>
                  /\ response'.code = 1 /\ response'.log = valid.err
                  /\ validators' = validators
                  /\ d.locks = 0
            /\ validators' # validators =>
                  /\ valid.ok
                  /\ validators' = validators_add(validators, fees(tx))
            /\ valid.ok => d.locks = 1]_vars

\* A delivery with a fee has been rejected for its proof and the pool is empty.
C32_Witness ==
    /\ Returned("deliver_tx") /\ response.code = 1
    /\ response.log = "proof verification failed"
    /\ fees(request.tx) = 1
    /\ validators.fees = 0

====
